---- MODULE Spec2Model ----
(***************************************************************************)
(* A model of the logging facade of package logger: the level registry     *)
(* (sharedConfig), the ZapLogger handle and its derivation operations, and *)
(* the leveled logging calls.                                              *)
(*                                                                         *)
(* Go strings that the code splits and joins on "." (component paths,      *)
(* logger names, keys of Config.ComponentLevels) are sequences of          *)
(* one-character strings, so that strings.Split and strings.Join are       *)
(* computed and not assumed.  A pointer is the index of the object in its  *)
(* heap (handles, sinks, cells); pointer equality is index equality.       *)
(***************************************************************************)
EXTENDS Integers, Sequences, FiniteSets, TLC

\* ------------------------------------------------------------------ bounds

\* The number of ZapLogger objects a behaviour may allocate (the logger built
\* by NewZapLogger included).
MaxHandles == 4

\* The number of WithComponent calls in a behaviour.
MaxComponents == 2

\* The handles on the heap while a concurrent caller logs.
MaxHotHandles == 2

\* The handles on the heap where derivations and updates mix.
MaxGateHandles == 3

\* SetLogger is called at most this many times (InitLogConfig's call included).
MaxSetLoggers == 2

\* ------------------------------------------------------- zapcore.Level

DebugLevel == -1
InfoLevel == 0
WarnLevel == 1
ErrorLevel == 2
DPanicLevel == 3
PanicLevel == 4
FatalLevel == 5

\* time.Second, in nanoseconds.
Second == 1000000000

\* ------------------------------------------------------------- strings

Dot == "."

Str_a == <<"a">>
Str_ab == <<"a", ".", "b">>
Str_x == <<"x">>

\* strings.Split(s, "."): the parts between the dots; one (empty) part for "".
RECURSIVE Split(_)
Split(s) ==
    IF \E i \in 1..Len(s) : s[i] = Dot
    THEN LET i == CHOOSE k \in 1..Len(s) :
                      s[k] = Dot /\ \A j \in 1..(k - 1) : s[j] # Dot
         IN  <<SubSeq(s, 1, i - 1)>> \o Split(SubSeq(s, i + 1, Len(s)))
    ELSE <<s>>

\* strings.Join(parts, ".").
RECURSIVE Join(_)
Join(parts) ==
    IF Len(parts) = 0 THEN <<>>
    ELSE IF Len(parts) = 1 THEN parts[1]
    ELSE parts[1] \o <<Dot>> \o Join(Tail(parts))

\* ------------------------------------------------------- level strings

\* bytes.ToLower on the level strings the configurations use.
ToLower(text) ==
    CASE text = "Warn" -> "warn"
      [] text = "Error" -> "error"
      [] text = "Debug" -> "debug"
      [] text = "Info" -> "info"
      [] OTHER -> text

\* zapcore.Level.unmarshalText: <<recognised, level>>.
unmarshalText(lvl, text) ==
    CASE text \in {"debug", "DEBUG"} -> <<TRUE, DebugLevel>>
      [] text \in {"info", "INFO", ""} -> <<TRUE, InfoLevel>>
      [] text \in {"warn", "WARN"} -> <<TRUE, WarnLevel>>
      [] text \in {"error", "ERROR"} -> <<TRUE, ErrorLevel>>
      [] text \in {"dpanic", "DPANIC"} -> <<TRUE, DPanicLevel>>
      [] text \in {"panic", "PANIC"} -> <<TRUE, PanicLevel>>
      [] text \in {"fatal", "FATAL"} -> <<TRUE, FatalLevel>>
      [] OTHER -> <<FALSE, lvl>>

\* zapcore.Level.UnmarshalText: the text as it is, then lower-cased; the level
\* is left as it was when neither is a level name (the error is dropped by
\* the caller).
UnmarshalText(lvl, text) ==
    IF unmarshalText(lvl, text)[1] THEN unmarshalText(lvl, text)[2]
    ELSE unmarshalText(lvl, ToLower(text))[2]

\* A parse that starts from Debug, and so leaves Debug for a text that is no
\* level name.
ParseZapLevelFromDebug(level) ==
    LET lvl == DebugLevel
    IN  IF level # "" THEN UnmarshalText(lvl, level) ELSE lvl

ParseZapLevel(level) ==
    LET lvl == InfoLevel
    IN  IF level # "" THEN UnmarshalText(lvl, level) ELSE lvl

\* ------------------------------------------------------------- Config

NoLevels == [k \in {} |-> ""]

\* A Config value: the fields the package reads.
Config(level, componentLevels, sample, seconds) ==
    [Level |-> level, ComponentLevels |-> componentLevels, Sample |-> sample,
     ItemSampleSeconds |-> seconds, ItemSampleInitial |-> 0,
     ItemSampleInterval |-> 10, SampleInterval |-> 0]

\* The level part of the configurations: a default level and component levels.
LevelConfigs ==
    { <<"Warn", NoLevels>>,
      <<"debug", (Str_a :> "error")>>,
      <<"ERROR", (Str_ab :> "debug") @@ (Str_a :> "bogus")>>,
      <<"bogus", (Str_a :> "warn") @@ (Str_ab :> "")>> }

\* The sampling part: <<Sample, ItemSampleSeconds>>.
SampleConfigs == { <<FALSE, 1>>, <<TRUE, 1>>, <<TRUE, 0>> }

\* The configurations onConfigUpdate is called with.
UpdateConfigs == { Config(l[1], l[2], FALSE, 0) : l \in LevelConfigs }

\* The arguments of the calls.
Components == { Str_a, Str_ab }
Names == { Str_x }
KeysAndValues == { <<"k1", "v1">> }
Depths == { 1 }
Errors == { "nil", "err" }
Procs == { "p1", "p2" }

\* --------------------------------------------------------------- state

VARIABLES
    handles,          \* the ZapLogger objects, by address
    sinks,            \* the zap.SugaredLogger objects, by address
    cells,            \* the zap.AtomicLevel cells, by address: their levels
    componentLevels,  \* sharedConfig.componentLevels: component -> cell
    config,           \* sharedConfig.config
    lc,               \* sharedConfig.lc: its holder, or NoProc
    pc,               \* where each caller is in its call
    dup,              \* WithComponent's dup while setEffectiveLevel runs
    newConf,          \* onConfigUpdate's conf
    todo,             \* onConfigUpdate: the components still to range over
    overlapped,       \* history: another onConfigUpdate ran during this one
    prov,             \* history: the call that allocated each handle
    ret,              \* history: the last derivation, GetLogger or InitLogConfig
                      \* call and the handle it returned or built
    lastCall,         \* history: the last logging call, and who held lc during it
    lastWrites,       \* history: what the last logging call handed to its sink
    defaultLogger,    \* the package's defaultLogger
    pkgLogger,        \* the package's pkgLogger
    setting           \* SetLogger's l and name while it runs

vars == <<handles, sinks, cells, componentLevels, config, lc, pc, dup, newConf,
          todo, overlapped, prov, ret, lastCall, lastWrites,
          defaultLogger, pkgLogger, setting>>

NoProc == "none"
NoCall == [op |-> "none"]
NoConf == Config("", NoLevels, FALSE, 0)

\* sharedConfig.level is the first cell.
DefaultCell == 1

\* LogRLogger(discardLogger), the logger over logr.Discard(): a value, where
\* a *ZapLogger is an address, from 1 on.
discardLogger == 0

\* No SetLogger call is running.
NoArgs == [l |-> 0, name |-> <<>>, tmp |-> 0]

\* The configurations InitLogConfig is called with.
InitConfigs == { Config("debug", NoLevels, FALSE, 0), Config("Warn", NoLevels, TRUE, 1) }

\* The handles a caller can hold: all but a dup WithComponent has not returned.
Published ==
    { h \in 1..Len(handles) : \A t \in Procs : pc[t] = "idle" \/ dup[t] # h }

\* ------------------------------------------------ zap.SugaredLogger (sinks)

\* zap.Config.Build().Sugar(): no name, no fields, no sampler.
BuiltSink == [name |-> <<>>, values |-> <<>>, callerSkip |-> 0, samplers |-> <<>>]

\* SugaredLogger.With.
SinkWith(s, keysAndValues) == [s EXCEPT !.values = @ \o keysAndValues]

\* SugaredLogger.Named: zap joins the names with "." and ignores an empty one.
SinkNamed(s, name) ==
    [s EXCEPT !.name = IF name = <<>> THEN @
                       ELSE IF @ = <<>> THEN name
                       ELSE @ \o <<Dot>> \o name]

\* An AddCallerSkip that skips one frame whatever the depth.
SinkAddCallerSkipOne(s, depth) == [s EXCEPT !.callerSkip = @ + 1]

\* WithOptions(zap.AddCallerSkip(depth)).
SinkAddCallerSkip(s, depth) == [s EXCEPT !.callerSkip = @ + depth]

\* WithOptions(zap.WrapCore(... zapcore.NewSamplerWithOptions(core, tick, first, thereafter))).
SinkWrapSampler(s, tick, first, thereafter) ==
    [s EXCEPT !.samplers =
        Append(@, [tick |-> tick, first |-> first, thereafter |-> thereafter])]

\* ------------------------------------------------------- construction

newSharedConfig(conf) ==
    [level |-> ParseZapLevel(conf.Level), config |-> conf,
     componentLevels |-> [k \in {} |-> 0]]

\* NewZapLogger when zc.Build() returns no error: the handle and the sinks it
\* builds.
NewZapLogger(conf) ==
    LET initial == IF conf.ItemSampleInitial = 0 THEN 20 ELSE conf.ItemSampleInitial
        thereafter == IF conf.SampleInterval = 0 THEN 100 ELSE conf.SampleInterval
        zaplog == [zap |-> IF conf.Sample THEN 2 ELSE 1,
                   unsampled |-> 1,
                   component |-> <<>>,
                   level |-> DefaultCell,
                   SampleDuration |-> conf.ItemSampleSeconds * Second,
                   SampleInitial |-> conf.ItemSampleInitial,
                   SampleInterval |-> conf.ItemSampleInterval]
    IN  [handle |-> zaplog,
         sinks |-> IF conf.Sample
                   THEN <<BuiltSink, SinkWrapSampler(BuiltSink, Second, initial, thereafter)>>
                   ELSE <<BuiltSink>>]

InitWith(confs) ==
    \E conf \in confs :
        /\ handles = <<NewZapLogger(conf).handle>>
        /\ sinks = NewZapLogger(conf).sinks
        /\ cells = <<newSharedConfig(conf).level>>
        /\ componentLevels = newSharedConfig(conf).componentLevels
        /\ config = newSharedConfig(conf).config
        /\ lc = NoProc
        /\ pc = [t \in Procs |-> "idle"]
        /\ dup = [t \in Procs |-> 0]
        /\ newConf = [t \in Procs |-> NoConf]
        /\ todo = [t \in Procs |-> {}]
        /\ overlapped = [t \in Procs |-> FALSE]
        /\ prov = <<[op |-> "NewZapLogger", src |-> 0]>>
        /\ ret = [op |-> "NewZapLogger", src |-> 0, h |-> 1]
        /\ lastCall = NoCall
        /\ lastWrites = <<>>
        /\ defaultLogger = discardLogger
        /\ pkgLogger = discardLogger
        /\ setting = [t \in Procs |-> NoArgs]

\* NewZapLogger with each level configuration, sampling on and off.
Init ==
    InitWith({ Config(l[1], l[2], s[1], s[2]) :
                 l \in LevelConfigs, s \in { <<FALSE, 0>>, <<TRUE, 1>> } })

\* NewZapLogger with each sampling configuration.
InitDerive ==
    InitWith({ Config("info", (Str_a :> "error"), s[1], s[2]) : s \in SampleConfigs })

\* NewZapLogger with each level configuration.
InitRegistry == InitWith(UpdateConfigs)

\* NewZapLogger with the configuration of src/cmd/main.go.
InitHot == InitWith({ Config("debug", NoLevels, FALSE, 0) })

\* NewZapLogger with the levels of src/cmd/main.go and with sampling.
InitGate == InitWith({ Config("debug", NoLevels, TRUE, 1) })

\* The package as its variables are initialised: no logger is built, and both
\* package loggers are the discard logger.
InitGlobal ==
    /\ handles = <<>>
    /\ sinks = <<>>
    /\ cells = <<>>
    /\ componentLevels = [k \in {} |-> 0]
    /\ config = NoConf
    /\ lc = NoProc
    /\ pc = [t \in Procs |-> "idle"]
    /\ dup = [t \in Procs |-> 0]
    /\ newConf = [t \in Procs |-> NoConf]
    /\ todo = [t \in Procs |-> {}]
    /\ overlapped = [t \in Procs |-> FALSE]
    /\ prov = <<>>
    /\ ret = [op |-> "none", src |-> 0, h |-> 0]
    /\ lastCall = NoCall
    /\ lastWrites = <<>>
    /\ defaultLogger = discardLogger
    /\ pkgLogger = discardLogger
    /\ setting = [t \in Procs |-> NoArgs]

\* ------------------------------------------------------- level registry

\* An update that looks the component up and never goes up the hierarchy.
confSearchExact(parts, conf, updateLevel) ==
    IF Len(parts) > 0 /\ Join(parts) \in DOMAIN conf.ComponentLevels
    THEN ParseZapLevel(conf.ComponentLevels[Join(parts)])
    ELSE updateLevel

\* onConfigUpdate's confSearch loop: the level of the first of the component,
\* then the component less its last part, ... that conf.ComponentLevels has,
\* and updateLevel if it has none of them.
RECURSIVE confSearch(_, _, _)
confSearch(parts, conf, updateLevel) ==
    IF Len(parts) > 0
    THEN LET search == Join(parts)
         IN  IF search \in DOMAIN conf.ComponentLevels
             THEN ParseZapLevel(conf.ComponentLevels[search])
             ELSE confSearch(SubSeq(parts, 1, Len(parts) - 1), conf, updateLevel)
    ELSE updateLevel

\* The body of onConfigUpdate's range loop for one component: the level it
\* sets the component's cell to.
updateLevelOf(component, conf) ==
    LET updateLevel == cells[DefaultCell]
        parts == Split(component)
    IN  confSearch(parts, conf, updateLevel)

\* A search that looks the component up and never goes up the hierarchy.
searchHierarchyExact(parts, created) ==
    IF Len(parts) > 0 /\ Join(parts) \in DOMAIN config.ComponentLevels
    THEN ParseZapLevel(config.ComponentLevels[Join(parts)])
    ELSE created

\* setEffectiveLevel's loop up the hierarchy: the level the new cell is set to
\* (the level it was created with if no part of the hierarchy is configured).
RECURSIVE searchHierarchy(_, _)
searchHierarchy(parts, created) ==
    IF Len(parts) > 0
    THEN LET search == Join(parts)
         IN  IF search \in DOMAIN config.ComponentLevels
             THEN ParseZapLevel(config.ComponentLevels[search])
             ELSE searchHierarchy(SubSeq(parts, 1, Len(parts) - 1), created)
    ELSE created

\* A setEffectiveLevel that does not look for the cached cell.
setEffectiveLevelNoCache(component) ==
    LET atomicLevel == Len(cells) + 1
        created == cells[DefaultCell]
    IN  [ret |-> atomicLevel,
         cells |-> Append(cells, searchHierarchy(Split(component), created)),
         componentLevels |->
             [c \in DOMAIN componentLevels \cup {component} |->
                 IF c = component THEN atomicLevel ELSE componentLevels[c]]]

\* A setEffectiveLevel that hands out the default cell itself for a component
\* with no configured level up its hierarchy.
setEffectiveLevelShared(component) ==
    IF component \in DOMAIN componentLevels
    THEN [ret |-> componentLevels[component], cells |-> cells,
          componentLevels |-> componentLevels]
    ELSE IF searchHierarchy(Split(component), FatalLevel + 1) = FatalLevel + 1
    THEN [ret |-> DefaultCell, cells |-> cells,
          componentLevels |->
              [c \in DOMAIN componentLevels \cup {component} |->
                  IF c = component THEN DefaultCell ELSE componentLevels[c]]]
    ELSE LET atomicLevel == Len(cells) + 1
             created == cells[DefaultCell]
         IN  [ret |-> atomicLevel,
              cells |-> Append(cells, searchHierarchy(Split(component), created)),
              componentLevels |->
                  [c \in DOMAIN componentLevels \cup {component} |->
                      IF c = component THEN atomicLevel ELSE componentLevels[c]]]

\* setEffectiveLevel between Lock and Unlock: the cell it returns, and the
\* cells and the map as it leaves them.
setEffectiveLevel(component) ==
    IF component \in DOMAIN componentLevels
    THEN [ret |-> componentLevels[component], cells |-> cells,
          componentLevels |-> componentLevels]
    ELSE LET atomicLevel == Len(cells) + 1
             created == cells[DefaultCell]
         IN  [ret |-> atomicLevel,
              cells |-> Append(cells, searchHierarchy(Split(component), created)),
              componentLevels |->
                  [c \in DOMAIN componentLevels \cup {component} |->
                      IF c = component THEN atomicLevel ELSE componentLevels[c]]]

\* ------------------------------------------------------- derivations
\* Each derivation is an operator from the heap to the heap as the call
\* leaves it and the handle it returns.

\* A derivation that always builds the second sink, aliased source or not.
MirrorApart(h, zapSink, unsampledSink) ==
    LET l == handles[h]
        z == Len(sinks) + 1
    IN  [handles |-> Append(handles, [l EXCEPT !.zap = z, !.unsampled = z + 1]),
         sinks |-> sinks \o <<zapSink, unsampledSink>>,
         ret |-> Len(handles) + 1]

\* The handle a derivation allocates from handle h: a copy with the new sinks,
\* the unsampled one aliased to the sampled one when h's are aliased (the
\* second sink is then not built).
Mirror(h, zapSink, unsampledSink) ==
    LET l == handles[h]
        z == Len(sinks) + 1
    IN  IF l.unsampled = l.zap
        THEN [handles |-> Append(handles, [l EXCEPT !.zap = z, !.unsampled = z]),
              sinks |-> Append(sinks, zapSink),
              ret |-> Len(handles) + 1]
        ELSE [handles |-> Append(handles, [l EXCEPT !.zap = z, !.unsampled = z + 1]),
              sinks |-> sinks \o <<zapSink, unsampledSink>>,
              ret |-> Len(handles) + 1]

\* A WithValues that binds the values on the receiver too (dup := l).
WithValuesShared(h, keysAndValues) ==
    LET l == handles[h]
        r == Mirror(h, SinkWith(sinks[l.zap], keysAndValues),
                       SinkWith(sinks[l.unsampled], keysAndValues))
    IN  [r EXCEPT !.handles[h] = r.handles[r.ret]]

WithValues(h, keysAndValues) ==
    LET l == handles[h]
    IN  Mirror(h, SinkWith(sinks[l.zap], keysAndValues),
                  SinkWith(sinks[l.unsampled], keysAndValues))

WithName(h, name) ==
    LET l == handles[h]
    IN  Mirror(h, SinkNamed(sinks[l.zap], name), SinkNamed(sinks[l.unsampled], name))

\* A WithCallDepth that leaves the unsampled sink as it is.
WithCallDepthSampledOnly(h, depth) ==
    LET l == handles[h]
    IN  Mirror(h, SinkAddCallerSkip(sinks[l.zap], depth), sinks[l.unsampled])

WithCallDepth(h, depth) ==
    LET l == handles[h]
    IN  Mirror(h, SinkAddCallerSkip(sinks[l.zap], depth),
                  SinkAddCallerSkip(sinks[l.unsampled], depth))

\* A WithItemSampler without the check of SampleDuration.
WithItemSamplerAlways(h) ==
    LET l == handles[h]
    IN  [handles |-> Append(handles, [l EXCEPT !.zap = Len(sinks) + 1]),
         sinks |-> Append(sinks, SinkWrapSampler(sinks[l.unsampled],
                       l.SampleDuration, l.SampleInitial, l.SampleInterval)),
         ret |-> Len(handles) + 1]

\* A WithItemSampler that wraps the sampled sink it has.
WithItemSamplerStacked(h) ==
    LET l == handles[h]
    IN  IF l.SampleDuration = 0
        THEN [handles |-> handles, sinks |-> sinks, ret |-> h]
        ELSE [handles |-> Append(handles, [l EXCEPT !.zap = Len(sinks) + 1]),
              sinks |-> Append(sinks, SinkWrapSampler(sinks[l.zap],
                            l.SampleDuration, l.SampleInitial, l.SampleInterval)),
              ret |-> Len(handles) + 1]

WithItemSampler(h) ==
    LET l == handles[h]
    IN  IF l.SampleDuration = 0
        THEN [handles |-> handles, sinks |-> sinks, ret |-> h]
        ELSE [handles |-> Append(handles, [l EXCEPT !.zap = Len(sinks) + 1]),
              sinks |-> Append(sinks, SinkWrapSampler(sinks[l.unsampled],
                            l.SampleDuration, l.SampleInitial, l.SampleInterval)),
              ret |-> Len(handles) + 1]

\* A WithoutSampler that copies the handle and keeps its sampled sink.
WithoutSamplerKeep(h) ==
    LET l == handles[h]
    IN  IF l.unsampled = l.zap
        THEN [handles |-> handles, sinks |-> sinks, ret |-> h]
        ELSE [handles |-> Append(handles, l), sinks |-> sinks, ret |-> Len(handles) + 1]

WithoutSampler(h) ==
    LET l == handles[h]
    IN  IF l.unsampled = l.zap
        THEN [handles |-> handles, sinks |-> sinks, ret |-> h]
        ELSE [handles |-> Append(handles, [l EXCEPT !.zap = l.unsampled]),
              sinks |-> sinks,
              ret |-> Len(handles) + 1]

\* A WithComponent that takes the component alone for the path.
WithComponentAlone(h, component) ==
    LET named == WithName(h, component)
    IN  [named EXCEPT !.handles[named.ret].component = component]

\* WithComponent up to its call of setEffectiveLevel: dup, with its component.
WithComponent(h, component) ==
    LET named == WithName(h, component)
        d == named.handles[named.ret]
    IN  [named EXCEPT !.handles[named.ret].component =
            IF d.component = <<>> THEN component
            ELSE d.component \o <<Dot>> \o component]

\* ------------------------------------------------------- logging calls
\* A logging call is the sequence of records it hands to its sink: none, or
\* one.  The message goes through unchanged and is left out.

\* A check that leaves out the threshold itself.
isEnabledAbove(l, level) == level > cells[l.level]

isEnabled(l, level) == level >= cells[l.level]

Debugw(h, keysAndValues) ==
    LET l == handles[h]
    IN  IF ~isEnabled(l, DebugLevel) THEN <<>>
        ELSE <<[sink |-> l.zap, level |-> DebugLevel, keysAndValues |-> keysAndValues]>>

Infow(h, keysAndValues) ==
    LET l == handles[h]
    IN  IF ~isEnabled(l, InfoLevel) THEN <<>>
        ELSE <<[sink |-> l.zap, level |-> InfoLevel, keysAndValues |-> keysAndValues]>>

\* A Warnw that appends the "error" pair whether err is nil or not.
WarnwAlways(h, err, keysAndValues) ==
    LET l == handles[h]
        kvs == keysAndValues \o <<"error", err>>
    IN  IF ~isEnabled(l, WarnLevel) THEN <<>>
        ELSE <<[sink |-> l.zap, level |-> WarnLevel, keysAndValues |-> kvs]>>

Warnw(h, err, keysAndValues) ==
    LET l == handles[h]
        kvs == IF err # "nil" THEN keysAndValues \o <<"error", err>> ELSE keysAndValues
    IN  IF ~isEnabled(l, WarnLevel) THEN <<>>
        ELSE <<[sink |-> l.zap, level |-> WarnLevel, keysAndValues |-> kvs]>>

Errorw(h, err, keysAndValues) ==
    LET l == handles[h]
        kvs == IF err # "nil" THEN keysAndValues \o <<"error", err>> ELSE keysAndValues
    IN  IF ~isEnabled(l, ErrorLevel) THEN <<>>
        ELSE <<[sink |-> l.zap, level |-> ErrorLevel, keysAndValues |-> kvs]>>

\* ------------------------------------------------- the package's loggers

\* A logr.Logger's Info and Error that hand the call to a sink all the same.
logrInfoKept(l, keysAndValues) ==
    <<[sink |-> l, level |-> InfoLevel, keysAndValues |-> keysAndValues]>>

\* logr.Logger.Info and Error on the logger toLogr gives for discardLogger:
\* it has no sink to hand the call to.
logrInfo(l, keysAndValues) == <<>>

LogRDebugw(l, keysAndValues) == logrInfo(l, keysAndValues)

LogRInfow(l, keysAndValues) == logrInfo(l, keysAndValues)

LogRWarnw(l, err, keysAndValues) ==
    logrInfo(l, IF err # "nil" THEN keysAndValues \o <<"error", err>>
                ELSE keysAndValues)

LogRErrorw(l, err, keysAndValues) == logrInfo(l, keysAndValues)

\* The package's Debugw, Infow, Warnw and Errorw: the call of the method on
\* what pkgLogger holds, a LogRLogger or a *ZapLogger.
PkgDebugw(keysAndValues) ==
    IF pkgLogger = discardLogger THEN LogRDebugw(pkgLogger, keysAndValues)
    ELSE Debugw(pkgLogger, keysAndValues)

PkgInfow(keysAndValues) ==
    IF pkgLogger = discardLogger THEN LogRInfow(pkgLogger, keysAndValues)
    ELSE Infow(pkgLogger, keysAndValues)

PkgWarnw(err, keysAndValues) ==
    IF pkgLogger = discardLogger THEN LogRWarnw(pkgLogger, err, keysAndValues)
    ELSE Warnw(pkgLogger, err, keysAndValues)

PkgErrorw(err, keysAndValues) ==
    IF pkgLogger = discardLogger THEN LogRErrorw(pkgLogger, err, keysAndValues)
    ELSE Errorw(pkgLogger, err, keysAndValues)

\* ------------------------------------------------------------- actions

\* A derivation that touches no shared state, as one step of caller t.
\* On a full heap only the two calls that can return their receiver go on.
Derive(t, op, h, arg, r) ==
    /\ pc[t] = "idle"
    /\ Len(handles) = MaxHandles => op \in {"WithItemSampler", "WithoutSampler"}
    /\ Len(r.handles) <= MaxHandles
    /\ handles' = r.handles
    /\ sinks' = r.sinks
    /\ prov' = IF Len(r.handles) > Len(handles)
               THEN Append(prov, [op |-> op, src |-> h, arg |-> arg])
               ELSE prov
    /\ ret' = [op |-> op, src |-> h, h |-> r.ret]
    /\ UNCHANGED <<cells, componentLevels, config, lc, pc, dup, newConf, todo,
                   overlapped, lastCall, lastWrites,
                   defaultLogger, pkgLogger, setting>>

CallWithValues(t) ==
    \E h \in Published, keysAndValues \in KeysAndValues :
        Derive(t, "WithValues", h, keysAndValues, WithValues(h, keysAndValues))

CallWithName(t) ==
    \E h \in Published, name \in Names :
        Derive(t, "WithName", h, name, WithName(h, name))

CallWithCallDepth(t) ==
    \E h \in Published, depth \in Depths :
        Derive(t, "WithCallDepth", h, depth, WithCallDepth(h, depth))

CallWithItemSampler(t) ==
    \E h \in Published : Derive(t, "WithItemSampler", h, <<>>, WithItemSampler(h))

CallWithoutSampler(t) ==
    \E h \in Published : Derive(t, "WithoutSampler", h, <<>>, WithoutSampler(h))

\* WithComponent, to where setEffectiveLevel waits for the lock.
CallWithComponent(t) ==
    \E h \in Published, component \in Components :
        LET r == WithComponent(h, component)
        IN  /\ pc[t] = "idle"
            /\ Len(handles) < MaxHandles
            /\ Len(r.handles) <= MaxHandles
            /\ Cardinality({i \in 1..Len(prov) : prov[i].op = "WithComponent"})
                   < MaxComponents
            /\ handles' = r.handles
            /\ sinks' = r.sinks
            /\ prov' = Append(prov, [op |-> "WithComponent", src |-> h, arg |-> component])
            /\ dup' = [dup EXCEPT ![t] = r.ret]
            /\ pc' = [pc EXCEPT ![t] = "eff_lock"]
            /\ UNCHANGED <<cells, componentLevels, config, lc, newConf, todo,
                           overlapped, ret, lastCall, lastWrites,
                           defaultLogger, pkgLogger, setting>>

\* setEffectiveLevel: c.lc.Lock().
EffectiveLock(t) ==
    /\ pc[t] = "eff_lock"
    /\ lc = NoProc
    /\ lc' = t
    /\ pc' = [pc EXCEPT ![t] = "eff_body"]
    /\ UNCHANGED <<handles, sinks, cells, componentLevels, config, dup, newConf,
                   todo, overlapped, prov, ret, lastCall, lastWrites,
                   defaultLogger, pkgLogger, setting>>

\* setEffectiveLevel under the lock, its deferred Unlock, and WithComponent's
\* assignment of the cell to dup.level and return.
EffectiveReturn(t) ==
    /\ pc[t] = "eff_body"
    /\ LET r == setEffectiveLevel(handles[dup[t]].component)
       IN  /\ cells' = r.cells
           /\ componentLevels' = r.componentLevels
           /\ handles' = [handles EXCEPT ![dup[t]].level = r.ret]
    /\ lc' = NoProc
    /\ ret' = [op |-> "WithComponent", src |-> prov[dup[t]].src, h |-> dup[t]]
    /\ dup' = [dup EXCEPT ![t] = 0]
    /\ pc' = [pc EXCEPT ![t] = "idle"]
    /\ UNCHANGED <<sinks, config, newConf, todo, overlapped, prov, lastCall, lastWrites,
                   defaultLogger, pkgLogger, setting>>

InUpdate(t) == pc[t] \in {"upd_lock", "upd_body"}

\* onConfigUpdate: cfg.level.SetLevel(ParseZapLevel(conf.Level)), before the lock.
UpdateSetLevel(t) ==
    \E conf \in UpdateConfigs :
        /\ pc[t] = "idle"
        /\ cells' = [cells EXCEPT ![DefaultCell] = ParseZapLevel(conf.Level)]
        /\ newConf' = [newConf EXCEPT ![t] = conf]
        /\ pc' = [pc EXCEPT ![t] = "upd_lock"]
        /\ overlapped' = IF \E u \in Procs \ {t} : InUpdate(u)
                         THEN [u \in Procs |-> overlapped[u] \/ InUpdate(u) \/ u = t]
                         ELSE [overlapped EXCEPT ![t] = FALSE]
        /\ UNCHANGED <<handles, sinks, componentLevels, config, lc, dup, todo,
                       prov, ret, lastCall, lastWrites,
                       defaultLogger, pkgLogger, setting>>

\* onConfigUpdate: cfg.lc.Lock(), cfg.config = conf, and the start of the range
\* over cfg.componentLevels.
UpdateLock(t) ==
    /\ pc[t] = "upd_lock"
    /\ lc = NoProc
    /\ lc' = t
    /\ config' = newConf[t]
    /\ todo' = [todo EXCEPT ![t] = DOMAIN componentLevels]
    /\ pc' = [pc EXCEPT ![t] = "upd_body"]
    /\ UNCHANGED <<handles, sinks, cells, componentLevels, dup, newConf,
                   overlapped, prov, ret, lastCall, lastWrites,
                   defaultLogger, pkgLogger, setting>>

\* onConfigUpdate: one iteration of the range loop (Go ranges over a map in
\* any order).
UpdateCell(t) ==
    \E component \in todo[t] :
        /\ pc[t] = "upd_body"
        /\ cells' = [cells EXCEPT ![componentLevels[component]] =
                        updateLevelOf(component, newConf[t])]
        /\ todo' = [todo EXCEPT ![t] = @ \ {component}]
        /\ UNCHANGED <<handles, sinks, componentLevels, config, lc, pc, dup,
                       newConf, overlapped, prov, ret, lastCall, lastWrites,
                       defaultLogger, pkgLogger, setting>>

\* onConfigUpdate: the end of the loop, the deferred Unlock and the return.
UpdateReturn(t) ==
    /\ pc[t] = "upd_body"
    /\ todo[t] = {}
    /\ lc' = NoProc
    /\ newConf' = [newConf EXCEPT ![t] = NoConf]
    /\ pc' = [pc EXCEPT ![t] = "idle"]
    /\ UNCHANGED <<handles, sinks, cells, componentLevels, config, dup, todo,
                   overlapped, prov, ret, lastCall, lastWrites,
                   defaultLogger, pkgLogger, setting>>

\* A logging call that takes the registry's lock for its check of the level.
LoggedLocked(t, call, writes) ==
    /\ pc[t] = "idle"
    /\ lc = NoProc
    /\ lastCall' = call @@ [during |-> lc]
    /\ lastWrites' = writes
    /\ UNCHANGED <<handles, sinks, cells, componentLevels, config, lc, pc, dup,
                   newConf, todo, overlapped, prov, ret,
                   defaultLogger, pkgLogger, setting>>

\* A logging call: the check of the level and the call of the sink.  Neither
\* takes sharedConfig.lc; the call is recorded with the holder of the lock
\* at the time.
Logged(t, call, writes) ==
    /\ pc[t] = "idle"
    /\ lastCall' = call @@ [during |-> lc]
    /\ lastWrites' = writes
    /\ UNCHANGED <<handles, sinks, cells, componentLevels, config, lc, pc, dup,
                   newConf, todo, overlapped, prov, ret,
                   defaultLogger, pkgLogger, setting>>

CallDebugw(t) ==
    \E h \in Published, kvs \in KeysAndValues :
        Logged(t, [op |-> "Debugw", h |-> h, err |-> "nil", keysAndValues |-> kvs],
               Debugw(h, kvs))

CallInfow(t) ==
    \E h \in Published, kvs \in KeysAndValues :
        Logged(t, [op |-> "Infow", h |-> h, err |-> "nil", keysAndValues |-> kvs],
               Infow(h, kvs))

CallWarnw(t) ==
    \E h \in Published, err \in Errors, kvs \in KeysAndValues :
        Logged(t, [op |-> "Warnw", h |-> h, err |-> err, keysAndValues |-> kvs],
               Warnw(h, err, kvs))

CallErrorw(t) ==
    \E h \in Published, err \in Errors, kvs \in KeysAndValues :
        Logged(t, [op |-> "Errorw", h |-> h, err |-> err, keysAndValues |-> kvs],
               Errorw(h, err, kvs))

\* The SetLogger calls begun so far.
SetLoggerCalls ==
    Cardinality({ i \in 1..Len(prov) :
                    prov[i].op = "SetLogger.WithCallDepth" /\ prov[i].arg = 1 })
    + Cardinality({ t \in Procs : pc[t] = "set_call" })

\* InitLogConfig: NewZapLogger, whose zc.Build() returns an error or not, and
\* the call of SetLogger when it returns none.  The new logger has sinks and
\* a sharedConfig of its own; of the sharedConfig the level cell alone is
\* kept, for nothing here reads its map or its config.
InitLogConfig(t) ==
    \E conf \in InitConfigs, system \in Names, built \in BOOLEAN :
        /\ pc[t] = "idle"
        /\ IF built
           THEN LET r == NewZapLogger(conf)
                    l == [r.handle EXCEPT !.zap = @ + Len(sinks),
                                          !.unsampled = @ + Len(sinks),
                                          !.level = Len(cells) + 1]
                IN  /\ SetLoggerCalls < MaxSetLoggers
                    /\ handles' = Append(handles, l)
                    /\ sinks' = sinks \o r.sinks
                    /\ cells' = Append(cells, newSharedConfig(conf).level)
                    /\ prov' = Append(prov, [op |-> "NewZapLogger", src |-> 0])
                    /\ setting' = [setting EXCEPT ![t] =
                           [l |-> Len(handles) + 1, name |-> system, tmp |-> 0]]
                    /\ pc' = [pc EXCEPT ![t] = "set_call"]
                    /\ ret' = [op |-> "InitLogConfig", src |-> 0, h |-> Len(handles) + 1]
           ELSE /\ ret' = [op |-> "InitLogConfig", src |-> 0, h |-> 0]
                /\ UNCHANGED <<handles, sinks, cells, prov, setting, pc>>
        /\ UNCHANGED <<componentLevels, config, lc, dup, newConf, todo, overlapped,
                       lastCall, lastWrites, defaultLogger, pkgLogger>>

\* A call of SetLogger with the *ZapLogger GetLogger has returned: the loggers
\* InitLogConfig builds reach a caller through GetLogger alone.
CallSetLogger(t) ==
    \E l \in {ret.h}, name \in Names :
        /\ pc[t] = "idle"
        /\ ret.op = "GetLogger"
        /\ l # discardLogger
        /\ SetLoggerCalls < MaxSetLoggers
        /\ setting' = [setting EXCEPT ![t] = [l |-> l, name |-> name, tmp |-> 0]]
        /\ pc' = [pc EXCEPT ![t] = "set_call"]
        /\ UNCHANGED <<handles, sinks, cells, componentLevels, config, lc, dup,
                       newConf, todo, overlapped, prov, ret, lastCall, lastWrites,
                       defaultLogger, pkgLogger>>

\* SetLogger's l.WithCallDepth(depth), at from.
SetLoggerWithCallDepth(t, depth, from, to) ==
    LET r == WithCallDepth(setting[t].l, depth)
    IN  /\ pc[t] = from
        /\ handles' = r.handles
        /\ sinks' = r.sinks
        /\ prov' = Append(prov, [op |-> "SetLogger.WithCallDepth",
                                 src |-> setting[t].l, arg |-> depth])
        /\ setting' = [setting EXCEPT ![t].tmp = r.ret]
        /\ pc' = [pc EXCEPT ![t] = to]
        /\ UNCHANGED <<cells, componentLevels, config, lc, dup, newConf, todo,
                       overlapped, ret, lastCall, lastWrites, defaultLogger, pkgLogger>>

\* SetLogger: l.WithCallDepth(1).
SetLoggerDefaultDepth(t) == SetLoggerWithCallDepth(t, 1, "set_call", "set_default")

\* SetLogger: defaultLogger = (...).WithName(name).
SetLoggerDefault(t) ==
    LET r == WithName(setting[t].tmp, setting[t].name)
    IN  /\ pc[t] = "set_default"
        /\ handles' = r.handles
        /\ sinks' = r.sinks
        /\ prov' = Append(prov, [op |-> "SetLogger.WithName",
                                 src |-> setting[t].tmp, arg |-> setting[t].name])
        /\ defaultLogger' = r.ret
        /\ pc' = [pc EXCEPT ![t] = "set_depth"]
        /\ UNCHANGED <<cells, componentLevels, config, lc, dup, newConf, todo,
                       overlapped, ret, lastCall, lastWrites, pkgLogger, setting>>

\* SetLogger: l.WithCallDepth(2).
SetLoggerPkgDepth(t) == SetLoggerWithCallDepth(t, 2, "set_depth", "set_pkg")

\* SetLogger: pkgLogger = (...).WithName(name), and the return.
SetLoggerPkg(t) ==
    LET r == WithName(setting[t].tmp, setting[t].name)
    IN  /\ pc[t] = "set_pkg"
        /\ handles' = r.handles
        /\ sinks' = r.sinks
        /\ prov' = Append(prov, [op |-> "SetLogger.WithName",
                                 src |-> setting[t].tmp, arg |-> setting[t].name])
        /\ pkgLogger' = r.ret
        /\ setting' = [setting EXCEPT ![t] = NoArgs]
        /\ pc' = [pc EXCEPT ![t] = "idle"]
        /\ UNCHANGED <<cells, componentLevels, config, lc, dup, newConf, todo,
                       overlapped, ret, lastCall, lastWrites, defaultLogger>>

\* GetLogger: a read of defaultLogger.
GetLogger(t) ==
    /\ pc[t] = "idle"
    /\ ret' = [op |-> "GetLogger", src |-> 0, h |-> defaultLogger]
    /\ UNCHANGED <<handles, sinks, cells, componentLevels, config, lc, pc, dup,
                   newConf, todo, overlapped, prov, lastCall, lastWrites,
                   defaultLogger, pkgLogger, setting>>

\* The package's logging functions: a read of pkgLogger and the call on it.
CallPkgDebugw(t) ==
    \E kvs \in KeysAndValues :
        Logged(t, [op |-> "logger.Debugw", h |-> pkgLogger, err |-> "nil",
                   keysAndValues |-> kvs], PkgDebugw(kvs))

CallPkgInfow(t) ==
    \E kvs \in KeysAndValues :
        Logged(t, [op |-> "logger.Infow", h |-> pkgLogger, err |-> "nil",
                   keysAndValues |-> kvs], PkgInfow(kvs))

CallPkgWarnw(t) ==
    \E err \in Errors, kvs \in KeysAndValues :
        Logged(t, [op |-> "logger.Warnw", h |-> pkgLogger, err |-> err,
                   keysAndValues |-> kvs], PkgWarnw(err, kvs))

CallPkgErrorw(t) ==
    \E err \in Errors, kvs \in KeysAndValues :
        Logged(t, [op |-> "logger.Errorw", h |-> pkgLogger, err |-> err,
                   keysAndValues |-> kvs], PkgErrorw(err, kvs))

\* ------------------------------------------------------- specifications

\* One caller: the level registry and the logging calls.
Next ==
    \E t \in {"p1"} :
        \/ CallWithComponent(t)
        \/ EffectiveLock(t)
        \/ EffectiveReturn(t)
        \/ UpdateSetLevel(t)
        \/ UpdateLock(t)
        \/ UpdateCell(t)
        \/ UpdateReturn(t)
        \/ CallDebugw(t)
        \/ CallInfow(t)
        \/ CallWarnw(t)
        \/ CallErrorw(t)

Spec == Init /\ [][Next]_vars

\* One caller: the derivations.
NextDerive ==
    \E t \in {"p1"} :
        \/ CallWithValues(t)
        \/ CallWithName(t)
        \/ CallWithCallDepth(t)
        \/ CallWithItemSampler(t)
        \/ CallWithoutSampler(t)
        \/ CallWithComponent(t)
        \/ EffectiveLock(t)
        \/ EffectiveReturn(t)

SpecDerive == InitDerive /\ [][NextDerive]_vars

\* Concurrent callers of the operations on the level registry.
NextRegistry ==
    \E t \in Procs :
        \/ CallWithComponent(t)
        \/ EffectiveLock(t)
        \/ EffectiveReturn(t)
        \/ UpdateSetLevel(t)
        \/ UpdateLock(t)
        \/ UpdateCell(t)
        \/ UpdateReturn(t)

SpecRegistry == InitRegistry /\ [][NextRegistry]_vars

\* A caller of the operations on the level registry and a concurrent caller
\* of the logging calls.
NextHot ==
    \/ \E t \in {"p1"} :
          \/ Len(handles) < MaxHotHandles /\ CallWithComponent(t)
          \/ EffectiveLock(t)
          \/ EffectiveReturn(t)
          \/ UpdateSetLevel(t)
          \/ UpdateLock(t)
          \/ UpdateCell(t)
          \/ UpdateReturn(t)
    \/ \E t \in {"p2"} :
          \/ CallDebugw(t)
          \/ CallInfow(t)
          \/ CallWarnw(t)
          \/ CallErrorw(t)

SpecHot == InitHot /\ [][NextHot]_vars

\* One caller: the derivations and onConfigUpdate.
NextGate ==
    \E t \in {"p1"} :
        \/ Len(handles) < MaxGateHandles /\ CallWithValues(t)
        \/ Len(handles) < MaxGateHandles /\ CallWithName(t)
        \/ Len(handles) < MaxGateHandles /\ CallWithCallDepth(t)
        \/ Len(handles) < MaxGateHandles /\ CallWithItemSampler(t)
        \/ Len(handles) < MaxGateHandles /\ CallWithoutSampler(t)
        \/ Len(handles) < MaxGateHandles /\ CallWithComponent(t)
        \/ EffectiveLock(t)
        \/ EffectiveReturn(t)
        \/ UpdateSetLevel(t)
        \/ UpdateLock(t)
        \/ UpdateCell(t)
        \/ UpdateReturn(t)

SpecGate == InitGate /\ [][NextGate]_vars

\* A caller that sets the package's loggers and a concurrent caller that
\* reads them.
NextGlobal ==
    \/ \E t \in {"p1"} :
          \/ InitLogConfig(t)
          \/ CallSetLogger(t)
          \/ SetLoggerDefaultDepth(t)
          \/ SetLoggerDefault(t)
          \/ SetLoggerPkgDepth(t)
          \/ SetLoggerPkg(t)
    \/ \E t \in {"p2"} :
          \/ GetLogger(t)
          \/ CallPkgDebugw(t)
          \/ CallPkgInfow(t)
          \/ CallPkgWarnw(t)
          \/ CallPkgErrorw(t)

SpecGlobal == InitGlobal /\ [][NextGlobal]_vars

\* ------------------------------------------------------- the claims

\* The dot-prefixes of component p: p, and every prefix of p that a dot follows.
DotPrefixes(p) ==
    { SubSeq(p, 1, k) : k \in { j \in 0..Len(p) : j = Len(p) \/ p[j + 1] = Dot } }

\* The dot-prefixes of p that are keys of the mapping.
ConfiguredPrefixes(p, levels) == DotPrefixes(p) \cap DOMAIN levels

Longest(ks) == CHOOSE k \in ks : \A j \in ks : Len(j) <= Len(k)

\* What a resolution of p against conf gives: the level of the longest
\* configured dot-prefix, and conf's default level if there is none.
FreshLevel(p, conf) ==
    IF ConfiguredPrefixes(p, conf.ComponentLevels) = {}
    THEN ParseZapLevel(conf.Level)
    ELSE ParseZapLevel(conf.ComponentLevels[Longest(ConfiguredPrefixes(p, conf.ComponentLevels))])

AllIdle == \A t \in Procs : pc[t] = "idle"

\* C1: the cell setEffectiveLevel creates for a component holds the level
\* configured for the longest dot-prefix of the component (the component
\* included) that is a key of the stored configuration's ComponentLevels.
C1_CreatedCellHoldsLongestPrefixLevel ==
    [][\A p \in (DOMAIN componentLevels') \ (DOMAIN componentLevels) :
          ConfiguredPrefixes(p, config.ComponentLevels) # {}
          => cells'[componentLevels'[p]] =
                ParseZapLevel(config.ComponentLevels[
                    Longest(ConfiguredPrefixes(p, config.ComponentLevels))])]_vars

\* A cell exists for a component that is not configured itself and has two
\* configured ancestors, and it holds the level of the nearer one.
C1_Witness ==
    \E p \in DOMAIN componentLevels :
        /\ AllIdle
        /\ p \notin DOMAIN config.ComponentLevels
        /\ Cardinality(ConfiguredPrefixes(p, config.ComponentLevels)) >= 2
        /\ ret.op = "WithComponent"
        /\ handles[ret.h].component = p
        /\ cells[componentLevels[p]] = DebugLevel
        /\ config.ComponentLevels[Str_ab] = "debug"

\* C2: when setEffectiveLevel returns the cell of a component none of whose
\* dot-prefixes is configured, the cell holds the level of the default cell.
C2_UnconfiguredComponentGetsDefault ==
    [][\A t \in Procs :
          (/\ pc[t] = "eff_body"
           /\ pc'[t] = "idle"
           /\ ConfiguredPrefixes(handles[dup[t]].component, config.ComponentLevels) = {})
          => cells'[handles'[dup[t]].level] = cells'[DefaultCell]]_vars

\* C3: when an onConfigUpdate that no other onConfigUpdate overlapped has
\* finished its loop, every cached cell holds what a fresh resolution of its
\* component against the new configuration gives, and every handle is gated by
\* that level.
C3_UpdateRecomputesEveryCell ==
    \A t \in Procs :
        (pc[t] = "upd_body" /\ todo[t] = {} /\ ~overlapped[t])
        => /\ cells[DefaultCell] = ParseZapLevel(newConf[t].Level)
           /\ \A p \in DOMAIN componentLevels :
                 cells[componentLevels[p]] = FreshLevel(p, newConf[t])
           /\ \A h \in Published :
                 \A level \in DebugLevel..ErrorLevel :
                     isEnabled(handles[h], level)
                     <=> level >= (IF handles[h].level = DefaultCell
                                   THEN ParseZapLevel(newConf[t].Level)
                                   ELSE FreshLevel(handles[h].component, newConf[t]))

\* An update to a configuration that sets "a" to error has finished its loop,
\* and the cell of "a.b", on which a handle is, holds Error.
C3_Witness ==
    \E t \in Procs :
        /\ pc[t] = "upd_body" /\ todo[t] = {} /\ ~overlapped[t]
        /\ Str_ab \in DOMAIN componentLevels
        /\ Str_ab \notin DOMAIN newConf[t].ComponentLevels
        /\ Str_a \in DOMAIN newConf[t].ComponentLevels
        /\ cells[componentLevels[Str_ab]] = ErrorLevel
        /\ cells[DefaultCell] # ErrorLevel
        /\ \E h \in Published : handles[h].level = componentLevels[Str_ab]

\* Every handle WithComponent has returned holds the cell the registry has
\* for the handle's component.
ReturnedCellsAreRegistered ==
    \A h \in Published :
        prov[h].op = "WithComponent"
        => /\ handles[h].component \in DOMAIN componentLevels
           /\ handles[h].level = componentLevels[handles[h].component]

\* C5: a component's cell, once in the registry, stays there and stays the
\* same cell, and every WithComponent call for the component returns it.
C5_CellIdentity ==
    [][/\ \A p \in DOMAIN componentLevels :
             /\ p \in DOMAIN componentLevels'
             /\ componentLevels'[p] = componentLevels[p]
       /\ Len(cells') >= Len(cells)
       /\ ReturnedCellsAreRegistered']_vars

\* Two handles of the same component, from two WithComponent calls, hold the
\* same cell, and a caller is updating the cells in place.
C5_Witness ==
    \E h1, h2 \in Published :
        /\ h1 # h2
        /\ prov[h1].op = "WithComponent" /\ prov[h2].op = "WithComponent"
        /\ handles[h1].component = handles[h2].component
        /\ handles[h1].level = handles[h2].level
        /\ handles[h1].level # DefaultCell
        /\ \E t \in Procs : pc[t] = "upd_body" /\ todo[t] = {}

\* C6: once every call has returned, the default level and every cached cell
\* are those of the stored configuration.
C6_RegistryMatchesStoredConfig ==
    AllIdle
    => /\ cells[DefaultCell] = ParseZapLevel(config.Level)
       /\ \A p \in DOMAIN componentLevels :
             cells[componentLevels[p]] = FreshLevel(p, config)

\* The fixed severity of a logging operation.
SeverityOf(op) ==
    CASE op = "Debugw" -> DebugLevel
      [] op = "Infow" -> InfoLevel
      [] op = "Warnw" -> WarnLevel
      [] op = "Errorw" -> ErrorLevel

\* C4: a logging call of severity S on a handle whose cell holds T hands one
\* record, of severity S, to the handle's active sink if S >= T, and none if
\* S < T.
C4_LevelGating ==
    [][lastCall' # lastCall
       => LET l == handles[lastCall'.h]
              S == SeverityOf(lastCall'.op)
              T == cells[l.level]
          IN  IF S >= T
              THEN /\ Len(lastWrites') = 1
                   /\ lastWrites'[1].sink = l.zap
                   /\ lastWrites'[1].level = S
              ELSE lastWrites' = <<>>]_vars

\* A handle of a component whose cell holds Warn has made a Warnw call, which
\* wrote one record.
C4_Witness ==
    /\ lastCall.op = "Warnw"
    /\ handles[lastCall.h].level # DefaultCell
    /\ cells[handles[lastCall.h].level] = WarnLevel
    /\ Len(lastWrites) = 1

\* The component path of a handle's source with component c appended.
Appended(path, c) == IF path = <<>> THEN c ELSE Join(<<path, c>>)

\* C7: a handle WithComponent(c) returns has the source's component path with
\* c appended and the registry's cell for that path; a handle any other
\* derivation returns has the component path and the cell of its source.
C7_OnlyWithComponentChangesCell ==
    /\ \A h \in Published :
          /\ prov[h].op = "WithComponent"
             => /\ handles[h].component =
                       Appended(handles[prov[h].src].component, prov[h].arg)
                /\ handles[h].component \in DOMAIN componentLevels
                /\ handles[h].level = componentLevels[handles[h].component]
          /\ prov[h].op \in {"WithValues", "WithName", "WithCallDepth",
                             "WithItemSampler", "WithoutSampler"}
             => /\ handles[h].component = handles[prov[h].src].component
                /\ handles[h].level = handles[prov[h].src].level
    /\ ret.op \in {"WithValues", "WithName", "WithCallDepth", "WithItemSampler",
                   "WithoutSampler"}
       => /\ handles[ret.h].component = handles[ret.src].component
          /\ handles[ret.h].level = handles[ret.src].level

\* WithComponent on a handle of component "a" has returned a handle of a
\* longer path and another cell, and WithName on that handle has returned
\* one with the same path and cell.
C7_Witness ==
    \E h \in Published :
        /\ prov[h].op = "WithComponent"
        /\ handles[prov[h].src].component = Str_a
        /\ Len(handles[h].component) > Len(Str_a)
        /\ handles[h].level # handles[prov[h].src].level
        /\ ret.op = "WithName" /\ ret.src = h /\ ret.h # h
        /\ handles[ret.h].level = handles[h].level

\* C8: no step changes a handle a caller holds, or a sink.
C8_DerivationPurity ==
    [][/\ \A h \in Published : handles'[h] = handles[h]
       /\ \A s \in 1..Len(sinks) : sinks'[s] = sinks[s]]_vars

\* WithValues has returned a handle whose sinks have the values, and the
\* sinks of its source have none.
C8_Witness ==
    /\ ret.op = "WithValues"
    /\ ret.h # ret.src
    /\ sinks[handles[ret.h].zap].values # <<>>
    /\ sinks[handles[ret.src].zap].values = <<>>
    /\ sinks[handles[ret.src].unsampled].values = <<>>

\* The handle a chain of WithItemSampler calls started from.
RECURSIVE SamplerOrigin(_)
SamplerOrigin(h) ==
    IF prov[h].op = "WithItemSampler" THEN SamplerOrigin(prov[h].src) ELSE h

\* C9: WithoutSampler on a handle that one or more WithItemSampler calls made
\* from a handle h of non-zero SampleDuration returns a handle whose active
\* sink is h's unsampled sink.
C9_SamplerRoundTrip ==
    (/\ ret.op = "WithoutSampler"
     /\ prov[ret.src].op = "WithItemSampler"
     /\ handles[SamplerOrigin(ret.src)].SampleDuration # 0)
    => handles[ret.h].zap = handles[SamplerOrigin(ret.src)].unsampled

\* WithoutSampler has returned from a handle two WithItemSampler calls away
\* from a handle whose sampled sink was not its unsampled one.
C9_Witness ==
    /\ ret.op = "WithoutSampler"
    /\ prov[ret.src].op = "WithItemSampler"
    /\ prov[prov[ret.src].src].op = "WithItemSampler"
    /\ handles[SamplerOrigin(ret.src)].SampleDuration # 0
    /\ handles[SamplerOrigin(ret.src)].zap # handles[SamplerOrigin(ret.src)].unsampled
    /\ handles[ret.h].zap = handles[SamplerOrigin(ret.src)].unsampled
    /\ handles[ret.src].zap # handles[ret.h].zap

\* C10: WithItemSampler on a handle whose SampleDuration is zero returns that
\* handle, and allocates none.
C10_DisabledSamplingReturnsSelf ==
    /\ (ret.op = "WithItemSampler" /\ handles[ret.src].SampleDuration = 0)
       => ret.h = ret.src
    /\ \A h \in 1..Len(handles) :
          prov[h].op = "WithItemSampler" => handles[prov[h].src].SampleDuration # 0

\* WithItemSampler has returned the handle it was called on, a handle that
\* WithoutSampler made and whose SampleDuration is zero.
C10_Witness ==
    /\ ret.op = "WithItemSampler"
    /\ ret.h = ret.src
    /\ prov[ret.src].op = "WithoutSampler"
    /\ handles[ret.src].SampleDuration = 0

\* The derivations that mirror their change on both sinks.
MirrorOps == {"WithValues", "WithName", "WithComponent", "WithCallDepth"}

\* The handle's sampled and unsampled references are the same sink.
Aliased(h) == handles[h].unsampled = handles[h].zap

\* The handle comes from a logger built with sampling disabled by calls of
\* the mirroring derivations alone.
RECURSIVE MirroredFromUnsampled(_)
MirroredFromUnsampled(h) ==
    IF prov[h].op = "NewZapLogger" THEN Aliased(h)
    ELSE prov[h].op \in MirrorOps /\ MirroredFromUnsampled(prov[h].src)

\* C11: the handle WithValues, WithName, WithComponent or WithCallDepth makes
\* from a handle whose sampled and unsampled references are the same sink has
\* its two references the same sink again; so has every handle these four
\* make, in any number of calls, from a logger built with sampling disabled.
C11_AliasPreservation ==
    /\ \A h \in 1..Len(handles) :
          /\ (prov[h].op \in MirrorOps /\ Aliased(prov[h].src)) => Aliased(h)
          /\ MirroredFromUnsampled(h) => Aliased(h)
    /\ (ret.op \in MirrorOps /\ Aliased(ret.src)) => Aliased(ret.h)

\* WithComponent has returned a handle with one sink of its own for both
\* references, made from a handle WithCallDepth made from a handle WithValues
\* made from a logger built with sampling disabled.
C11_Witness ==
    /\ ret.op = "WithComponent"
    /\ prov[ret.h].op = "WithComponent"
    /\ prov[ret.src].op = "WithCallDepth"
    /\ prov[prov[ret.src].src].op = "WithValues"
    /\ prov[prov[prov[ret.src].src].src].op = "NewZapLogger"
    /\ MirroredFromUnsampled(ret.h)
    /\ Aliased(ret.h)
    /\ handles[ret.h].zap # handles[ret.src].zap

\* C12: the pairs a Warnw or Errorw call that passes the level check hands to
\* the sink are the caller's pairs, in their order, followed by "error" and
\* err when err is not nil, and the caller's pairs alone when err is nil.
C12_ErrorPairAppended ==
    (lastCall.op \in {"Warnw", "Errorw"} /\ lastWrites # <<>>)
    => /\ Len(lastWrites) = 1
       /\ lastCall.err # "nil"
          => lastWrites[1].keysAndValues = lastCall.keysAndValues \o <<"error", lastCall.err>>
       /\ lastCall.err = "nil"
          => /\ lastWrites[1].keysAndValues = lastCall.keysAndValues
             /\ \A i \in 1..Len(lastWrites[1].keysAndValues) :
                   lastWrites[1].keysAndValues[i] # "error"

\* Warnw with a nil err and the pairs k1, v1 has passed the level check and
\* handed k1, v1 to the sink.
C12_Witness ==
    /\ lastCall.op = "Warnw"
    /\ lastCall.err = "nil"
    /\ Len(lastWrites) = 1
    /\ lastWrites[1].keysAndValues = <<"k1", "v1">>

\* The level names, as written and in capitals.
LevelNames ==
    {"debug", "DEBUG", "info", "INFO", "warn", "WARN", "error", "ERROR",
     "dpanic", "DPANIC", "panic", "PANIC", "fatal", "FATAL"}

\* The string is empty, or is no level name in any case of letters.
NotALevel(s) == s = "" \/ (s \notin LevelNames /\ ToLower(s) \notin LevelNames)

\* The string configured for the longest configured dot-prefix of p.
MostSpecific(p, levels) == levels[Longest(ConfiguredPrefixes(p, levels))]

\* C13: a severity string that is empty or no level name stands for Info: the
\* default cell holds Info when the logger is built with such a default, and
\* when onConfigUpdate sets such a default; the cell setEffectiveLevel
\* creates for a component holds Info when the string of the component's
\* longest configured dot-prefix is such a string, and so does the cell after
\* onConfigUpdate has recomputed it against such a configuration.
C13_UnparsableLevelIsInfo ==
    /\ NotALevel(config.Level) => cells[DefaultCell] = InfoLevel
    /\ [][/\ \A p \in (DOMAIN componentLevels') \ (DOMAIN componentLevels) :
                (/\ ConfiguredPrefixes(p, config.ComponentLevels) # {}
                 /\ NotALevel(MostSpecific(p, config.ComponentLevels)))
                => cells'[componentLevels'[p]] = InfoLevel
          /\ \A t \in Procs :
                /\ \A p \in todo[t] \ todo'[t] :
                      (/\ pc[t] = "upd_body"
                       /\ ConfiguredPrefixes(p, newConf[t].ComponentLevels) # {}
                       /\ NotALevel(MostSpecific(p, newConf[t].ComponentLevels)))
                      => cells'[componentLevels[p]] = InfoLevel
                /\ (pc[t] = "idle" /\ pc'[t] = "upd_lock" /\ NotALevel(newConf'[t].Level))
                   => cells'[DefaultCell] = InfoLevel]_vars

\* An update to the configuration with the default "bogus", "a" at warn and
\* "a.b" at the empty string has finished its loop: the default cell holds
\* Info, the cell of "a" holds Warn and the cell of "a.b" holds Info.
C13_Witness ==
    \E t \in Procs :
        /\ pc[t] = "upd_body" /\ todo[t] = {} /\ ~overlapped[t]
        /\ newConf[t].Level = "bogus"
        /\ NotALevel(newConf[t].ComponentLevels[Str_ab])
        /\ {Str_a, Str_ab} \subseteq DOMAIN componentLevels
        /\ cells[DefaultCell] = InfoLevel
        /\ cells[componentLevels[Str_a]] = WarnLevel
        /\ cells[componentLevels[Str_ab]] = InfoLevel

\* C19: the unsampled sink of every handle has no sampler and the sampled
\* sink has one at most; the handle WithItemSampler makes has the unsampled
\* sink of its source, by reference, and for its sampled sink that unsampled
\* sink wrapped in one sampler of the handle's duration, initial and interval.
C19_NoStackedSamplers ==
    \A h \in 1..Len(handles) :
        /\ sinks[handles[h].unsampled].samplers = <<>>
        /\ Len(sinks[handles[h].zap].samplers) <= 1
        /\ prov[h].op = "WithItemSampler"
           => LET l == handles[prov[h].src]
              IN  /\ handles[h].unsampled = l.unsampled
                  /\ sinks[handles[h].zap] =
                        [sinks[l.unsampled] EXCEPT !.samplers =
                            <<[tick |-> l.SampleDuration, first |-> l.SampleInitial,
                               thereafter |-> l.SampleInterval]>>]

\* WithItemSampler has returned a handle made from a handle WithItemSampler
\* made from a logger built with sampling, whose sampled sink has a sampler:
\* the new handle's sampled sink has one sampler.
C19_Witness ==
    /\ ret.op = "WithItemSampler"
    /\ ret.h # ret.src
    /\ prov[ret.src].op = "WithItemSampler"
    /\ prov[prov[ret.src].src].op = "NewZapLogger"
    /\ Len(sinks[handles[prov[ret.src].src].zap].samplers) = 1
    /\ Len(sinks[handles[ret.src].zap].samplers) = 1
    /\ Len(sinks[handles[ret.h].zap].samplers) = 1
    /\ handles[ret.h].unsampled = handles[prov[ret.src].src].unsampled

\* The two sinks have the same bound pairs in the same order, the same name
\* and the same caller skip.
SameBut(s1, s2) ==
    /\ s1.values = s2.values
    /\ s1.name = s2.name
    /\ s1.callerSkip = s2.callerSkip

\* C20: the sampled and the unsampled sink of every handle have the same
\* bound pairs in the same order, the same name and the same caller skip; the
\* handle WithoutSampler returns has, on its active sink, the pairs, the name
\* and the caller skip of the active sink of the handle it was called on.
C20_SampledUnsampledParity ==
    /\ \A h \in 1..Len(handles) :
          SameBut(sinks[handles[h].zap], sinks[handles[h].unsampled])
    /\ ret.op = "WithoutSampler"
       => /\ SameBut(sinks[handles[ret.h].zap], sinks[handles[ret.src].zap])
          /\ sinks[handles[ret.h].zap].samplers = <<>>

\* WithoutSampler has returned a handle with no sampler and with the pairs
\* that WithValues bound after WithItemSampler had made a sampled sink.
C20_Witness ==
    /\ ret.op = "WithoutSampler"
    /\ ret.h # ret.src
    /\ prov[ret.src].op = "WithValues"
    /\ prov[prov[ret.src].src].op = "WithItemSampler"
    /\ sinks[handles[prov[ret.src].src].zap].values = <<>>
    /\ sinks[handles[ret.src].zap].samplers # <<>>
    /\ sinks[handles[ret.h].zap].samplers = <<>>
    /\ sinks[handles[ret.h].zap].values = <<"k1", "v1">>

\* No build of a logger has succeeded yet.
NothingBuilt == handles = <<>>

\* C14: while no InitLogConfig call has built a logger, defaultLogger and
\* pkgLogger are the discard logger; an InitLogConfig call whose build fails
\* changes neither of them, builds nothing and calls nothing; and a call of
\* the package's Debugw, Infow, Warnw or Errorw that finds the discard logger
\* in pkgLogger hands nothing to any sink.
C14_FailedInitKeepsDiscard ==
    /\ [](/\ NothingBuilt
             => (defaultLogger = discardLogger /\ pkgLogger = discardLogger)
          /\ (lastCall # NoCall /\ lastCall.h = discardLogger) => lastWrites = <<>>)
    /\ [][(ret' # ret /\ ret'.op = "InitLogConfig" /\ ret'.h = 0)
          => UNCHANGED <<defaultLogger, pkgLogger, handles, sinks, cells, pc,
                         lastWrites>>]_vars

\* The last InitLogConfig call failed, as did every one before it, and a
\* call of the package's Warnw with an error has handed nothing to a sink.
C14_Witness ==
    /\ NothingBuilt
    /\ ret.op = "InitLogConfig" /\ ret.h = 0
    /\ defaultLogger = discardLogger /\ pkgLogger = discardLogger
    /\ lastCall.op = "logger.Warnw"
    /\ lastCall.err = "err"
    /\ lastCall.h = discardLogger
    /\ lastWrites = <<>>

\* The name path with the name appended.
Tagged(path, name) == IF path = <<>> THEN name ELSE path \o <<Dot>> \o name

\* On the heap hs, ss, pv: s is a handle SetLogger derived from handle h, it
\* is h but for its sinks, and each of its sinks is the sink of h with the
\* name appended to the name path and depth added to the caller skip.
DerivedBySetLogger(hs, ss, pv, s, h, depth, name) ==
    /\ s # discardLogger
    /\ pv[s].op = "SetLogger.WithName"
    /\ pv[pv[s].src].op = "SetLogger.WithCallDepth"
    /\ pv[pv[s].src].src = h
    /\ hs[s] = [hs[h] EXCEPT !.zap = hs[s].zap, !.unsampled = hs[s].unsampled]
    /\ ss[hs[s].zap] =
          [ss[hs[h].zap] EXCEPT !.name = Tagged(@, name), !.callerSkip = @ + depth]
    /\ ss[hs[s].unsampled] =
          [ss[hs[h].unsampled] EXCEPT !.name = Tagged(@, name), !.callerSkip = @ + depth]

\* What SetLogger(h, name) leaves with defaultLogger at defaultDepth and
\* pkgLogger at pkgDepth: its first assignment leaves defaultLogger derived
\* from h, tagged and at defaultDepth; its return leaves pkgLogger derived
\* from h, tagged and at pkgDepth, and defaultLogger as it was assigned; and
\* GetLogger returns defaultLogger.
SetLoggerLeaves(defaultDepth, pkgDepth) ==
    /\ \A t \in Procs :
          /\ (pc[t] = "set_default" /\ pc'[t] = "set_depth")
             => DerivedBySetLogger(handles', sinks', prov', defaultLogger',
                                   setting[t].l, defaultDepth, setting[t].name)
          /\ (pc[t] = "set_pkg" /\ pc'[t] = "idle")
             => /\ DerivedBySetLogger(handles', sinks', prov', pkgLogger',
                                      setting[t].l, pkgDepth, setting[t].name)
                /\ DerivedBySetLogger(handles', sinks', prov', defaultLogger',
                                      setting[t].l, defaultDepth, setting[t].name)
    /\ (ret' # ret /\ ret'.op = "GetLogger") => ret'.h = defaultLogger

\* C15 as stated: after SetLogger(h, name) both package loggers are derived
\* from h and tagged with name, defaultLogger, which GetLogger returns, at
\* caller depth 0 relative to h and pkgLogger at caller depth 2.
C15_DefaultDepthZero == [][SetLoggerLeaves(0, 2)]_vars

\* C15, amended: after SetLogger(h, name) both package loggers are derived
\* from h and tagged with name, defaultLogger, which GetLogger returns, at
\* caller depth 1 relative to h and pkgLogger at caller depth 2.
C15_DefaultDepthOne == [][SetLoggerLeaves(1, 2)]_vars

\* SetLogger has returned, called with a handle GetLogger had returned, whose
\* caller skip is 1: defaultLogger and pkgLogger are derived from it, with
\* caller skips 2 and 3, and GetLogger has returned the new defaultLogger.
C15_Witness ==
    /\ \A t \in Procs : pc[t] = "idle"
    /\ defaultLogger # discardLogger /\ pkgLogger # discardLogger
    /\ \E h \in 1..Len(handles) :
          /\ sinks[handles[h].zap].callerSkip = 1
          /\ DerivedBySetLogger(handles, sinks, prov, defaultLogger, h, 1, Str_x)
          /\ DerivedBySetLogger(handles, sinks, prov, pkgLogger, h, 2, Str_x)
          /\ sinks[handles[defaultLogger].zap].callerSkip = 2
          /\ sinks[handles[pkgLogger].zap].callerSkip = 3
    /\ ret.op = "GetLogger" /\ ret.h = defaultLogger

\* The handle SetLogger was called with when it derived the package logger s.
SetLoggerOrigin(s) == prov[prov[s].src].src

\* defaultLogger and pkgLogger are both as the package initialised them, or
\* are both derived from the handle of one SetLogger call.
SingletonsPaired ==
    \/ defaultLogger = discardLogger /\ pkgLogger = discardLogger
    \/ /\ defaultLogger # discardLogger
       /\ pkgLogger # discardLogger
       /\ SetLoggerOrigin(defaultLogger) = SetLoggerOrigin(pkgLogger)

\* C17: a GetLogger call or a call of the package's Debugw, Infow, Warnw or
\* Errorw, in whatever way it interleaves with a SetLogger call of another
\* caller, never reads the package loggers with defaultLogger derived from the
\* new handle and pkgLogger still the one from before the call.
C17_SetLoggerAtomic ==
    [][((ret' # ret /\ ret'.op = "GetLogger") \/ lastCall' # lastCall)
       => SingletonsPaired]_vars

\* The level onConfigUpdate's loop gives the cell of component p: that of the
\* longest configured dot-prefix of p in conf, and the default cell's if none
\* is configured.
ReloadLevel(p, conf) ==
    IF ConfiguredPrefixes(p, conf.ComponentLevels) = {}
    THEN cells[DefaultCell]
    ELSE ParseZapLevel(MostSpecific(p, conf.ComponentLevels))

\* Caller t can make each of the four logging calls on handle h.
CanLog(t, h) ==
    \A kvs \in KeysAndValues :
        /\ ENABLED Logged(t, [op |-> "Debugw", h |-> h, err |-> "nil",
                              keysAndValues |-> kvs], Debugw(h, kvs))
        /\ ENABLED Logged(t, [op |-> "Infow", h |-> h, err |-> "nil",
                              keysAndValues |-> kvs], Infow(h, kvs))
        /\ \A err \in Errors :
              /\ ENABLED Logged(t, [op |-> "Warnw", h |-> h, err |-> err,
                                    keysAndValues |-> kvs], Warnw(h, err, kvs))
              /\ ENABLED Logged(t, [op |-> "Errorw", h |-> h, err |-> err,
                                    keysAndValues |-> kvs], Errorw(h, err, kvs))

\* C16: while onConfigUpdate or setEffectiveLevel holds sharedConfig.lc, any
\* other caller can make a Debugw, Infow, Warnw or Errorw call on any handle,
\* in one step that leaves the lock alone; the call is gated by the level its
\* cell holds at that step; and onConfigUpdate changes a cell in one step,
\* once, to the level its loop computes, so that the level read is the one
\* from before that write or the one after it.
C16_EnabledCheckTakesNoLock ==
    /\ [](lc # NoProc
          => \A t \in Procs \ {lc} :
                pc[t] = "idle" => \A h \in Published : CanLog(t, h))
    /\ [][/\ (lastCall' # lastCall /\ lastCall'.during # NoProc)
             => /\ LET S == SeverityOf(lastCall'.op)
                       T == cells[handles[lastCall'.h].level]
                   IN  IF S >= T THEN Len(lastWrites') = 1 ELSE lastWrites' = <<>>
                /\ UNCHANGED <<lc, pc, cells>>
          /\ \A u \in Procs :
                pc[u] = "upd_body"
                => \A c \in 1..Len(cells) :
                      cells'[c] # cells[c]
                      => \E p \in todo[u] \ todo'[u] :
                            /\ componentLevels[p] = c
                            /\ cells'[c] = ReloadLevel(p, newConf[u])]_vars

\* While a caller holds the lock in onConfigUpdate, with the loop past the
\* cell of a component, another caller has made an Infow call on a handle of
\* that component, and the call was dropped by the cell's level.
C16_Witness ==
    /\ lc = "p1"
    /\ pc["p1"] = "upd_body"
    /\ lastCall # NoCall
    /\ lastCall.during = "p1"
    /\ lastCall.op = "Infow"
    /\ handles[lastCall.h].level # DefaultCell
    /\ handles[lastCall.h].component \notin todo["p1"]
    /\ cells[handles[lastCall.h].level] > InfoLevel
    /\ lastWrites = <<>>

\* No WithComponent call is among the calls that made the handle.
RECURSIVE NeverThroughWithComponent(_)
NeverThroughWithComponent(h) ==
    \/ prov[h].op = "NewZapLogger"
    \/ /\ prov[h].op \in {"WithValues", "WithName", "WithCallDepth",
                          "WithItemSampler", "WithoutSampler"}
       /\ NeverThroughWithComponent(prov[h].src)

\* C18: a handle that no WithComponent call has made or led to holds the
\* default cell itself, whatever WithValues, WithName, WithCallDepth,
\* WithItemSampler and WithoutSampler calls made it, and is gated by the level
\* of that cell; so the step of onConfigUpdate that sets the default level
\* makes each of them gate by the new default, and leaves the cell of every
\* handle a WithComponent call made as it is; such a cell changes only in the
\* step in which the loop of onConfigUpdate recomputes it.
C18_DefaultCellShared ==
    /\ [](\A h \in 1..Len(handles) :
             NeverThroughWithComponent(h)
             => /\ handles[h].level = DefaultCell
                /\ \A level \in DebugLevel..FatalLevel :
                      isEnabled(handles[h], level) <=> level >= cells[DefaultCell])
    /\ [][/\ \A t \in Procs :
                (pc[t] = "idle" /\ pc'[t] = "upd_lock")
                => \A h \in Published :
                      IF NeverThroughWithComponent(h)
                      THEN \A level \in DebugLevel..FatalLevel :
                              (level >= cells'[handles'[h].level])
                              <=> level >= ParseZapLevel(newConf'[t].Level)
                      ELSE cells'[handles'[h].level] = cells[handles[h].level]
          /\ \A h \in Published :
                (/\ ~NeverThroughWithComponent(h)
                 /\ cells'[handles'[h].level] # cells[handles[h].level])
                => \E t \in Procs :
                      /\ pc[t] = "upd_body"
                      /\ handles[h].component \in todo[t] \ todo'[t]]_vars

\* onConfigUpdate has set a default level other than the one before and has
\* not yet taken the lock: a handle WithItemSampler made from the logger
\* NewZapLogger built is on the default cell, and a handle of component
\* "a", which neither the stored nor the new configuration configures, is on
\* a cell of its own that still holds the default of before.
C18_Witness ==
    \E h, g \in Published :
        /\ pc["p1"] = "upd_lock"
        /\ prov[h].op = "WithItemSampler"
        /\ prov[prov[h].src].op = "NewZapLogger"
        /\ NeverThroughWithComponent(h)
        /\ handles[h].level = DefaultCell
        /\ cells[DefaultCell] = ParseZapLevel(newConf["p1"].Level)
        /\ prov[g].op = "WithComponent"
        /\ handles[g].component = Str_a
        /\ ConfiguredPrefixes(Str_a, config.ComponentLevels) = {}
        /\ ConfiguredPrefixes(Str_a, newConf["p1"].ComponentLevels) = {}
        /\ handles[g].level # DefaultCell
        /\ cells[handles[g].level] # cells[DefaultCell]

====
